---- MODULE Spec2Model ----
(***************************************************************************)
(* A model of PathRedux (src/src/Path.ts, src/_separator.ts): the Path     *)
(* value type, its pure operations, its mutators and its filesystem        *)
(* operations.                                                             *)
(*                                                                         *)
(* A JavaScript string is modelled as a sequence of one-character strings, *)
(* so "/etc" is <<"/", "e", "t", "c">> and "" is <<>>.  An optional        *)
(* argument is a record [given, val]; `undefined` is None.                 *)
(***************************************************************************)
EXTENDS Integers, Sequences, FiniteSets

VARIABLES
    pathElements,   \* this.pathElements : string[]
    separators,     \* this.separators   : string[]
    trailingSlash,  \* this.trailingSlash: boolean
    input,          \* the arguments the instance was constructed from (under
                    \* SpecTmp, the options of the static call)
    calls,          \* the push / del / pop calls made on the instance so far
    os,             \* Deno.build.os
    env,            \* the environment variables TMPDIR, TMP and TEMP
    fs,             \* the host filesystem: node |-> kind of entry
    allow,          \* the permissions the process runs with (--allow-read, --allow-write)
    ret             \* the outcome of the last call

vars == <<pathElements, separators, trailingSlash, input, calls, os, env, fs, allow, ret>>

(***************************************************************************)
(* Bounds of the model.                                                    *)
(***************************************************************************)
MaxLen == 4         \* longest construction text drawn character by character
MaxLenY == 2        \* longest text of the second operand of diff
MaxCalls == 3       \* longest sequence of mutator calls on one instance
MaxDepth == 2       \* most fragments in a path drawn for the filesystem specification

(***************************************************************************)
(* Optional values and small helpers.                                      *)
(***************************************************************************)
None == [given |-> FALSE, val |-> <<>>]
Some(x) == [given |-> TRUE, val |-> x]
\* JavaScript truthiness of an optional string: undefined and "" are falsy
Truthy(o) == o.given /\ o.val # <<>>

Range(s) == {s[i] : i \in 1..Len(s)}

\* Array.prototype.indexOf / lastIndexOf, 0-based, -1 when absent
IndexOf(s, e) ==
    IF \E i \in 1..Len(s) : s[i] = e
    THEN (CHOOSE i \in 1..Len(s) : s[i] = e /\ \A j \in 1..(i - 1) : s[j] # e) - 1
    ELSE -1

LastIndexOf(s, e) ==
    IF \E i \in 1..Len(s) : s[i] = e
    THEN (CHOOSE i \in 1..Len(s) : s[i] = e /\ \A j \in (i + 1)..Len(s) : s[j] # e) - 1
    ELSE -1

\* Array.prototype.join
RECURSIVE Join(_, _)
Join(elems, sep) ==
    IF elems = <<>> THEN <<>>
    ELSE IF Len(elems) = 1 THEN elems[1]
    ELSE elems[1] \o sep \o Join(Tail(elems), sep)

\* all strings over alphabet A of length at most n
RECURSIVE StringsUpTo(_, _)
StringsUpTo(A, n) ==
    IF n = 0 THEN {<<>>}
    ELSE LET shorter == StringsUpTo(A, n - 1)
         IN shorter \cup {Append(s, c) : s \in shorter, c \in A}

(***************************************************************************)
(* Separator constants and the separator resolver.                         *)
(***************************************************************************)
UNIX_SEPS == <<"/">>
WINDOWS_SEPS == <<"\\", "/">>

\* _determineSeparators(); "throw" stands for Error("unexpected platform")
DetermineSeparators(o) ==
    CASE o \in {"linux", "darwin"} -> [status |-> "ok", value |-> <<"/">>]
      [] o = "windows" -> [status |-> "ok", value |-> <<"\\", "/">>]
      [] OTHER -> [status |-> "throw", value |-> "unexpected platform"]

(***************************************************************************)
(* Path: constructor, explodePath, toString.                               *)
(***************************************************************************)
RECURSIVE ExplodeLoop(_, _, _, _, _)
ExplodeLoop(seps, exploded, charAt, elems, currentElement) ==
    IF charAt > Len(exploded) THEN Append(elems, currentElement)
    ELSE LET char == exploded[charAt] IN
         IF IndexOf(seps, char) = -1
         THEN ExplodeLoop(seps, exploded, charAt + 1, elems, Append(currentElement, char))
         ELSE IF currentElement # <<>>
              THEN ExplodeLoop(seps, exploded, charAt + 1, Append(elems, currentElement), <<>>)
              ELSE ExplodeLoop(seps, exploded, charAt + 1, elems, currentElement)

\* a variant of explodePath that drops an empty last fragment
ExplodePathTrimmed(seps, pathString) ==
    LET out == ExplodeLoop(seps, pathString, 1, <<>>, <<>>)
    IN IF out[Len(out)] = <<>> THEN SubSeq(out, 1, Len(out) - 1) ELSE out

ExplodePath(seps, pathString) == ExplodeLoop(seps, pathString, 1, <<>>, <<>>)

\* a variant of the flag that takes a leading backslash for a root as well
LeadingSlashOrBackslash(path) == path[1] \in {"/", "\\"}

\* this.trailingSlash = path[0] === "/"   (path is non-empty here)
LeadingSlash(path) == path[1] = "/"

\* new Path(path?, separators?) on a host whose separators are hostSeps
NewPath(path, seps, hostSeps) ==
    LET s == IF seps.given THEN seps.val ELSE hostSeps
    IN IF Truthy(path)
       THEN [pathElements |-> ExplodePath(s, path.val),
             separators |-> s,
             trailingSlash |-> LeadingSlash(path.val)]
       ELSE [pathElements |-> <<>>, separators |-> s, trailingSlash |-> FALSE]

\* a variant of the separator choice that takes the last separator of the set
ChosenSeparatorLast(p, separator) ==
    IF Truthy(separator) THEN separator.val ELSE <<p.separators[Len(p.separators)]>>

\* separator || this.separators[0]
ChosenSeparator(p, separator) ==
    IF Truthy(separator) THEN separator.val ELSE <<p.separators[1]>>

ToString(p, prefix, suffix, separator) ==
    LET joined == Join(p.pathElements, ChosenSeparator(p, separator))
        path == prefix \o (joined \o suffix)
    IN IF p.trailingSlash THEN <<"/">> \o path ELSE path

\* toString() with every argument defaulted
Str(p) == ToString(p, <<>>, <<>>, None)

This == [pathElements |-> pathElements, separators |-> separators,
         trailingSlash |-> trailingSlash]

(***************************************************************************)
(* Path: ext and diff.                                                     *)
(***************************************************************************)
\* get ext(): the result is Some(extension) or None for null; on a Path
\* without elements lastElem is undefined and lastElem.split throws
Ext(p) ==
    IF p.pathElements = <<>> THEN [status |-> "throw", value |-> "TypeError"]
    ELSE LET lastElem == p.pathElements[Len(p.pathElements)]
             dotIndex == LastIndexOf(lastElem, ".")
         IN IF dotIndex # 0 /\ dotIndex # -1
            THEN [status |-> "ok",
                  value |-> Some(SubSeq(lastElem, dotIndex + 1, Len(lastElem)))]
            ELSE [status |-> "ok", value |-> None]

\* a variant of diff that keeps only the first occurrence of a value of x
DiffDistinct(x, y) ==
    LET xRepr == x.pathElements
        yRepr == y.pathElements
        first == {i \in 1..Len(xRepr) : \A j \in 1..(i - 1) : xRepr[j] # xRepr[i]}
        RECURSIVE Walk(_)
        Walk(i) == IF i > Len(xRepr) THEN <<>>
                   ELSE IF i \in first /\ IndexOf(yRepr, xRepr[i]) = -1
                        THEN <<xRepr[i]>> \o Walk(i + 1)
                        ELSE Walk(i + 1)
    IN Walk(1)

\* Path.diff(x, y)
Diff(x, y) ==
    LET xRepr == x.pathElements
        yRepr == y.pathElements
        Keep(e) == IndexOf(yRepr, e) = -1
    IN SelectSeq(xRepr, Keep)

(***************************************************************************)
(* The outcome of a call: the operation, its arguments, whether it         *)
(* returned ("ok"), threw ("throw") or never returns ("hang"), its value   *)
(* (the error when it threw), the create-directory and remove calls it     *)
(* issued on the host, in order, and the filesystem as the call found it.  *)
(***************************************************************************)
Outcome(op, args, status, value, oscalls) ==
    [op |-> op, args |-> args, status |-> status, value |-> value,
     oscalls |-> oscalls, fsBefore |-> fs]

NoCall == Outcome("none", <<>>, "ok", <<>>, <<>>)

(***************************************************************************)
(* Spec: one Path constructed from drawn arguments, and the operations     *)
(* that read it.                                                           *)
(***************************************************************************)
Chars == {"/", "\\", "a", "."}

EtcTestSlash == <<"/", "e", "t", "c", "/", "t", "e", "s", "t", "/">>
EtcTestCfg == <<"/", "e", "t", "c", "/", "t", "e", "s", "t", "/",
                ".", "d", "o", "t", "f", "o", "l", "d", "e", "r", "/",
                "t", "e", "s", "t", ".", "c", "f", "g">>
ArchiveTarGz == <<"a", "r", "c", "h", "i", "v", "e", ".", "t", "a", "r", ".", "g", "z">>
ExampleTexts == {EtcTestSlash, EtcTestCfg, ArchiveTarGz}

Texts == StringsUpTo(Chars, MaxLen) \cup ExampleTexts
TextsY == StringsUpTo({"/", "a"}, MaxLenY)

\* the hosts and separator overrides a Path is constructed under
Hosts == {[os |-> "linux", seps |-> None],
          [os |-> "windows", seps |-> None],
          [os |-> "linux", seps |-> Some(WINDOWS_SEPS)],
          [os |-> "linux", seps |-> Some(<<"\\">>)]}

Prefixes == {<<>>, <<"a">>}
Suffixes == {<<>>, <<".">>}
Overrides == {None, Some(<<>>), Some(<<"\\">>)}

NoEnv == [TMPDIR |-> None, TMP |-> None, TEMP |-> None]
RootOnly == [n \in {<<>>} |-> "dir"]
AllowAll == [read |-> TRUE, write |-> TRUE]

Init ==
    \E h \in Hosts, path \in {None} \cup {Some(t) : t \in Texts} :
        LET p == NewPath(path, h.seps, DetermineSeparators(h.os).value) IN
        /\ pathElements = p.pathElements
        /\ separators = p.separators
        /\ trailingSlash = p.trailingSlash
        /\ input = [path |-> path, separators |-> h.seps]
        /\ calls = <<>>
        /\ os = h.os
        /\ env = NoEnv
        /\ fs = RootOnly
        /\ allow = AllowAll
        /\ ret = Outcome("new", input, "ok", p, <<>>)

Unchanged == UNCHANGED <<pathElements, separators, trailingSlash, input, calls, os, env, fs, allow>>

\* Path.explodePath(this.separators, path), as the constructor and push call it
CallExplodePath ==
    /\ input.path.given
    /\ ret' = Outcome("explodePath", <<separators, input.path.val>>, "ok",
                      ExplodePath(separators, input.path.val), <<>>)
    /\ Unchanged

CallToString ==
    \E prefix \in Prefixes, suffix \in Suffixes, separator \in Overrides :
        /\ ret' = Outcome("toString", <<prefix, suffix, separator>>, "ok",
                          ToString(This, prefix, suffix, separator), <<>>)
        /\ Unchanged

CallExt ==
    /\ ret' = Outcome("ext", <<>>, Ext(This).status, Ext(This).value, <<>>)
    /\ Unchanged

CallDiff ==
    \E ty \in TextsY :
        LET y == NewPath(Some(ty), Some(separators), separators) IN
        /\ ret' = Outcome("diff", <<This, y>>, "ok", Diff(This, y), <<>>)
        /\ Unchanged

Next == CallExplodePath \/ CallToString \/ CallExt \/ CallDiff

Spec == Init /\ [][Next]_vars

(***************************************************************************)
(* Claims about the constructor, explodePath, toString, ext and diff,      *)
(* checked under Spec.                                                     *)
(***************************************************************************)
\* the text and the separator set the instance was constructed from
CtorText == input.path.val
IsSep(c) == c \in Range(separators)

\* C1's texts: non-empty, no trailing separator, no two separators in a row,
\* only the preferred separator after the first character, and the first
\* character either no separator or "/"
RoundTripText(t) ==
    /\ t # <<>>
    /\ ~IsSep(t[Len(t)])
    /\ \A i \in 1..(Len(t) - 1) : ~(IsSep(t[i]) /\ IsSep(t[i + 1]))
    /\ \A i \in 2..Len(t) : IsSep(t[i]) => t[i] = separators[1]
    /\ (~IsSep(t[1]) \/ t[1] = "/")

DefaultToString ==
    /\ ret.op = "toString"
    /\ ret.args = <<<<>>, <<>>, None>>

\* C1: for every separator set S and every text t of the shape RoundTripText,
\* new Path(t, S).toString() with no prefix, suffix or override returns t.
C1_RoundTrip ==
    (DefaultToString /\ input.path.given /\ RoundTripText(CtorText))
        => ret.value = CtorText

\* C1 as it holds: the same, for the texts that begin with "/" only when "/"
\* is a member of S.
C1_RoundTripSlashIsSep ==
    (/\ DefaultToString
     /\ input.path.given
     /\ RoundTripText(CtorText)
     /\ (CtorText[1] = "/" => IsSep("/")))
        => ret.value = CtorText

C1_Witness ==
    /\ DefaultToString
    /\ input.path.given
    /\ RoundTripText(CtorText)
    /\ CtorText[1] = "/"
    /\ separators = WINDOWS_SEPS
    /\ Len(pathElements) >= 2
    /\ ret.value = CtorText

\* the maximal non-empty runs of non-separator characters of t, as the set of
\* their <<first, last>> positions
Runs(S, t) ==
    {r \in (1..Len(t)) \X (1..Len(t)) :
        /\ r[1] <= r[2]
        /\ \A k \in r[1]..r[2] : t[k] \notin S
        /\ (r[1] = 1 \/ t[r[1] - 1] \in S)
        /\ (r[2] = Len(t) \/ t[r[2] + 1] \in S)}

\* the k-th run from the left: the one with k - 1 runs starting before it
RunAt(S, t, k) ==
    CHOOSE r \in Runs(S, t) :
        Cardinality({q \in Runs(S, t) : q[1] < r[1]}) = k - 1

RunsThenEmpty(S, t) ==
    [k \in 1..Cardinality(Runs(S, t)) |->
        SubSeq(t, RunAt(S, t, k)[1], RunAt(S, t, k)[2])]
    \o (IF t = <<>> \/ t[Len(t)] \in S THEN << <<>> >> ELSE <<>>)

Str_etc == <<"e", "t", "c">>
Str_test == <<"t", "e", "s", "t">>
Str_dotfolder == <<".", "d", "o", "t", "f", "o", "l", "d", "e", "r">>
Str_testcfg == <<"t", "e", "s", "t", ".", "c", "f", "g">>

\* C2: explodePath(S, t) is the maximal non-empty runs of non-separator
\* characters of t, left to right, followed by one empty fragment iff t is
\* empty or ends in a separator; so no fragment holds a separator, only the
\* last one can be empty, "/etc/test/" gives etc, test, "" and
\* "/etc/test/.dotfolder/test.cfg" gives etc, test, .dotfolder, test.cfg.
C2_Explode ==
    ret.op = "explodePath" =>
        LET S == Range(ret.args[1])
            t == ret.args[2]
            out == ret.value
        IN /\ out = RunsThenEmpty(S, t)
           /\ \A i \in 1..Len(out) : \A k \in 1..Len(out[i]) : out[i][k] \notin S
           /\ \A i \in 1..(Len(out) - 1) : out[i] # <<>>
           /\ (t = EtcTestSlash /\ ret.args[1] = UNIX_SEPS)
                => out = <<Str_etc, Str_test, <<>> >>
           /\ (t = EtcTestCfg /\ ret.args[1] = UNIX_SEPS)
                => out = <<Str_etc, Str_test, Str_dotfolder, Str_testcfg>>

C2_Witness ==
    /\ ret.op = "explodePath"
    /\ ret.args[2] = EtcTestSlash
    /\ ret.args[1] = UNIX_SEPS
    /\ ret.value[Len(ret.value)] = <<>>

\* C3: the flag is true iff the construction text is non-empty and starts
\* with "/", whatever the separator set; toString(prefix, suffix, override)
\* is prefix + joined elements + suffix, with one "/" in front iff the flag
\* is true.
C3_LeadingRoot ==
    /\ trailingSlash = (input.path.given /\ CtorText # <<>> /\ CtorText[1] = "/")
    /\ ret.op = "toString" =>
         LET prefix == ret.args[1]
             suffix == ret.args[2]
             override == ret.args[3]
             chosen == IF override.given /\ override.val # <<>>
                       THEN override.val ELSE <<separators[1]>>
             body == prefix \o Join(pathElements, chosen) \o suffix
         IN ret.value = (IF trailingSlash THEN <<"/">> ELSE <<>>) \o body

C3_Witness ==
    /\ ret.op = "toString"
    /\ trailingSlash
    /\ separators[1] = "\\"
    /\ ret.args[1] # <<>>
    /\ Len(pathElements) >= 2

\* what C4 says ext is for a last element e
ExtOf(e) ==
    IF (\A i \in 1..Len(e) : e[i] # ".")
       \/ (e[1] = "." /\ \A i \in 2..Len(e) : e[i] # ".")
    THEN None
    ELSE LET d == CHOOSE i \in 1..Len(e) :
                    e[i] = "." /\ \A j \in (i + 1)..Len(e) : e[j] # "."
         IN Some(SubSeq(e, d, Len(e)))

\* C4: for every Path, ext returns null if the last element e has no "." or
\* its last "." is at index 0, and otherwise e from its last "." on.  A Path
\* without elements has no last element: there the claim's answer is null.
C4_Ext ==
    ret.op = "ext" =>
        /\ ret.status = "ok"
        /\ ret.value = (IF pathElements = <<>> THEN None
                        ELSE ExtOf(pathElements[Len(pathElements)]))

\* the positions of x whose value occurs nowhere in y
Kept(x, y) == {i \in 1..Len(x) : \A j \in 1..Len(y) : y[j] # x[i]}

\* C5: diff(x, y) is x restricted to the positions whose value is nowhere in
\* y, in x's order and with x's multiplicity; it is x when y is empty; and x
\* and y are left as they were.
C5_Diff ==
    ret.op = "diff" =>
        LET x == ret.args[1].pathElements
            y == ret.args[2].pathElements
            out == ret.value
        IN /\ Len(out) = Cardinality(Kept(x, y))
           /\ \A i \in Kept(x, y) :
                out[Cardinality({k \in Kept(x, y) : k <= i})] = x[i]
           /\ (y = <<>> => out = x)
           /\ This = ret.args[1]

C5_Witness ==
    /\ ret.op = "diff"
    /\ Len(ret.value) >= 2
    /\ ret.value[1] = ret.value[2]
    /\ Len(ret.value) < Len(ret.args[1].pathElements)

(***************************************************************************)
(* Path: push, del, pop and the separatorList setter.                      *)
(***************************************************************************)
\* a variant of push that appends the fragment as it is (an earlier revision)
PushWhole(p, e) ==
    [p EXCEPT !.pathElements = Append(p.pathElements, e)]

\* push(e): explode e with this.separatorList and append every fragment
Push(p, e) ==
    LET pe == ExplodePath(p.separators, e)
    IN [p EXCEPT !.pathElements = p.pathElements \o pe]

\* del(): this.pathElements.pop(), which leaves an empty array as it is
Del(p) ==
    [p EXCEPT !.pathElements =
        IF p.pathElements = <<>> THEN <<>>
        ELSE SubSeq(p.pathElements, 1, Len(p.pathElements) - 1)]

\* pop(): return this.del()
Pop(p) == Del(p)

\* set separatorList(sl)
SetSeparatorList(p, sl) == [p EXCEPT !.separators = sl]

(***************************************************************************)
(* SpecMut: one Path and sequences of at most MaxCalls calls of its        *)
(* mutators.  A mutator returns `this`, written "this".                    *)
(***************************************************************************)
MutTexts == {None, Some(<<"/", "a">>), Some(<<"a", "\\", "a", "/">>), Some(<<"a", "/", "/", "a">>)}
Fragments == {<<>>, <<"a">>, <<"a", "/">>, <<"/", "a", "\\", ".">>, <<"\\", "\\">>}
SepLists == {UNIX_SEPS, WINDOWS_SEPS}

InitMut ==
    \E h \in Hosts, path \in MutTexts :
        LET p == NewPath(path, h.seps, DetermineSeparators(h.os).value) IN
        /\ pathElements = p.pathElements
        /\ separators = p.separators
        /\ trailingSlash = p.trailingSlash
        /\ input = [path |-> path, separators |-> h.seps]
        /\ calls = <<>>
        /\ os = h.os
        /\ env = NoEnv
        /\ fs = RootOnly
        /\ allow = AllowAll
        /\ ret = Outcome("new", input, "ok", p, <<>>)

\* the instance becomes p, the call c is recorded and `this` is returned
Mutated(p, c, result) ==
    /\ Len(calls) < MaxCalls
    /\ pathElements' = p.pathElements
    /\ separators' = p.separators
    /\ trailingSlash' = p.trailingSlash
    /\ calls' = Append(calls, c)
    /\ ret' = Outcome(c.op, <<c.arg>>, "ok", result, <<>>)
    /\ UNCHANGED <<input, os, env, fs, allow>>

CallPush ==
    \E e \in Fragments : Mutated(Push(This, e), [op |-> "push", arg |-> e], "this")

CallDel == Mutated(Del(This), [op |-> "del", arg |-> <<>>], "this")

CallPop == Mutated(Pop(This), [op |-> "pop", arg |-> <<>>], "this")

CallSetSeparatorList ==
    \E sl \in SepLists :
        Mutated(SetSeparatorList(This, sl), [op |-> "separatorList", arg |-> sl], "void")

NextMut == CallPush \/ CallDel \/ CallPop \/ CallSetSeparatorList

SpecMut == InitMut /\ [][NextMut]_vars

\* the instance as constructed, before any call
Constructed == NewPath(input.path, input.separators, DetermineSeparators(os).value)

\* C10's reading of a call sequence: push appends the fragments of its
\* argument under the separators current at that call, a removal drops the
\* last entry if there is one, and neither touches the separators or the flag
RECURSIVE Replay(_, _)
Replay(p, cs) ==
    IF cs = <<>> THEN p
    ELSE LET c == cs[1]
             q == CASE c.op = "push" ->
                         [p EXCEPT !.pathElements =
                             p.pathElements \o RunsThenEmpty(Range(p.separators), c.arg)]
                    [] c.op \in {"del", "pop"} ->
                         [p EXCEPT !.pathElements =
                             [i \in 1..(IF Len(p.pathElements) = 0 THEN 0
                                        ELSE Len(p.pathElements) - 1) |-> p.pathElements[i]]]
                    [] OTHER -> [p EXCEPT !.separators = c.arg]
         IN Replay(q, Tail(cs))

\* C10: after any sequence of push and removeLast (del, pop) calls the
\* elements are those obtained by replaying the calls in order, every such
\* call returns the same instance, and the separator set and the flag are
\* changed by none of them.
C10_Sequencing ==
    /\ This = Replay(Constructed, calls)
    /\ ret.op \in {"push", "del", "pop"} => ret.value = "this"

C10_Witness ==
    /\ Len(calls) = MaxCalls
    /\ calls[1].op = "del"
    /\ calls[2].op = "push"
    /\ Len(ExplodePath(separators, calls[2].arg)) >= 2
    /\ calls[3].op = "pop"
    /\ pathElements # <<>>

(***************************************************************************)
(* Temporary paths: getTmpPath, makeTmpDir, genTmpPath.                    *)
(***************************************************************************)
DefaultRngScalar == 4096
HashMinLength == 10

\* a || b on optional strings
OrElse(a, b) == IF Truthy(a) THEN a ELSE b

\* a parameter's default value, taken when the argument is undefined
Default(o, d) == IF o.given THEN o.val ELSE d

Digit(d) == <<"0", "1", "2", "3", "4", "5", "6", "7", "8", "9">>[d + 1]

\* Number.prototype.toString of a non-negative integer
RECURSIVE NumberToString(_)
NumberToString(n) ==
    IF n < 10 THEN <<Digit(n)>> ELSE Append(NumberToString(n \div 10), Digit(n % 10))

\* new Hashids(salt, minLength).encode(n): a token of at least minLength
\* characters of the encoder's alphabet, fixed by salt, minLength and n
HashidsEncode(salt, minLength, n) ==
    [i \in 1..minLength |-> <<"x", "y", "z">>[((n + i * Len(salt)) % 3) + 1]]

\* Path.getTmpPath()
GetTmpPath(o, e) ==
    CASE o = "windows" ->
            [status |-> "ok",
             value |-> NewPath(OrElse(e.TMP, e.TEMP), None, DetermineSeparators(o).value)]
      [] o \in {"darwin", "linux"} ->
            [status |-> "ok",
             value |-> NewPath(OrElse(e.TMPDIR, Some(<<"/", "t", "m", "p">>)), None,
                               DetermineSeparators(o).value)]
      [] OTHER ->
            [status |-> "throw",
             value |-> "could not determine the system's temporary folder path"]

\* a variant of makeTmpDir that joins the suffix without the join character
MakeTmpDirBareSuffix(o, e, opts, rn) ==
    LET joinChar == Default(opts.joinChar, <<".">>)
        prefix0 == Default(opts.prefix, <<>>)
        suffix0 == Default(opts.suffix, <<>>)
        token == HashidsEncode(NumberToString(rn), HashMinLength, rn)
        prefix == IF prefix0 # <<>> THEN prefix0 \o joinChar ELSE <<>>
        pt == IF ~Truthy(opts.tmpDir) THEN GetTmpPath(o, e)
              ELSE IF DetermineSeparators(o).status = "throw" THEN DetermineSeparators(o)
              ELSE [status |-> "ok",
                    value |-> NewPath(opts.tmpDir, None, DetermineSeparators(o).value)]
    IN IF pt.status = "throw" THEN pt
       ELSE [status |-> "ok", value |-> Push(pt.value, prefix \o token \o suffix0)]

\* Path.makeTmpDir(opts), rn being the integer Math.floor(Math.random() * rngScalar)
MakeTmpDir(o, e, opts, rn) ==
    LET joinChar == Default(opts.joinChar, <<".">>)
        prefix0 == Default(opts.prefix, <<>>)
        suffix0 == Default(opts.suffix, <<>>)
        token == HashidsEncode(NumberToString(rn), HashMinLength, rn)
        prefix == IF prefix0 # <<>> THEN prefix0 \o joinChar ELSE <<>>
        suffix == IF suffix0 # <<>> THEN joinChar \o suffix0 ELSE <<>>
        pt == IF ~Truthy(opts.tmpDir) THEN GetTmpPath(o, e)
              ELSE IF DetermineSeparators(o).status = "throw" THEN DetermineSeparators(o)
              ELSE [status |-> "ok",
                    value |-> NewPath(opts.tmpDir, None, DetermineSeparators(o).value)]
    IN IF pt.status = "throw" THEN pt
       ELSE [status |-> "ok", value |-> Push(pt.value, prefix \o token \o suffix)]

\* Path.genTmpPath(rngScalar, prefix, suffix, joinChar, tmpDir): the defaults
\* of the positional parameters, then makeTmpDir
GenTmpPath(o, e, opts, rn) ==
    MakeTmpDir(o, e,
               [rngScalar |-> Some(Default(opts.rngScalar, DefaultRngScalar)),
                prefix |-> Some(Default(opts.prefix, <<>>)),
                suffix |-> Some(Default(opts.suffix, <<>>)),
                joinChar |-> Some(Default(opts.joinChar, <<".">>)),
                tmpDir |-> opts.tmpDir],
               rn)

\* the integers Math.floor(Math.random() * rngScalar) can be, rngScalar >= 1,
\* among the sampled draws
RnSamples == {0, 1, 4095}
Draws(rngScalar) == {rn \in RnSamples : rn < rngScalar}

(***************************************************************************)
(* SpecTmp: the static temporary-path operations on a host.                *)
(***************************************************************************)
TmpHosts ==
    {[os |-> "linux", env |-> NoEnv],
     [os |-> "linux", env |-> [NoEnv EXCEPT !.TMPDIR = Some(<<"/", "v", "/", "t">>)]],
     [os |-> "darwin", env |-> [NoEnv EXCEPT !.TMPDIR = Some(<<>>)]],
     [os |-> "windows", env |-> NoEnv],
     [os |-> "windows", env |-> [NoEnv EXCEPT !.TMP = Some(<<"C", ":", "\\", "t">>)]],
     [os |-> "windows", env |-> [NoEnv EXCEPT !.TMP = Some(<<>>),
                                             !.TEMP = Some(<<"D", ":", "/", "t">>)]],
     [os |-> "freebsd", env |-> NoEnv]}

TmpOptions ==
    [rngScalar : {None, Some(2)},
     prefix : {None, Some(<<"r", "u", "n">>), Some(<<"p", "/">>)},
     suffix : {None, Some(<<"t", "m", "p">>)},
     joinChar : {None, Some(<<"-">>)},
     tmpDir : {None, Some(<<>>), Some(<<"/", "a">>)}]

\* no instance is involved: the operations are static, and input holds the
\* options they are called with
InitTmp ==
    \E h \in TmpHosts, opts \in TmpOptions :
        /\ pathElements = <<>>
        /\ separators = <<>>
        /\ trailingSlash = FALSE
        /\ input = opts
        /\ calls = <<>>
        /\ os = h.os
        /\ env = h.env
        /\ fs = RootOnly
        /\ allow = AllowAll
        /\ ret = NoCall

CallGetTmpPath ==
    /\ ret' = Outcome("getTmpPath", <<>>, GetTmpPath(os, env).status,
                      GetTmpPath(os, env).value, <<>>)
    /\ UNCHANGED <<pathElements, separators, trailingSlash, input, calls, os, env, fs, allow>>

CallMakeTmpDir ==
    \E rn \in Draws(Default(input.rngScalar, DefaultRngScalar)) :
        LET r == MakeTmpDir(os, env, input, rn) IN
        /\ ret' = Outcome("makeTmpDir", <<input, rn>>, r.status, r.value, <<>>)
        /\ UNCHANGED <<pathElements, separators, trailingSlash, input, calls,
                       os, env, fs, allow>>

CallGenTmpPath ==
    \E rn \in Draws(Default(input.rngScalar, DefaultRngScalar)) :
        LET r == GenTmpPath(os, env, input, rn) IN
        /\ ret' = Outcome("genTmpPath", <<input, rn>>, r.status, r.value, <<>>)
        /\ UNCHANGED <<pathElements, separators, trailingSlash, input, calls,
                       os, env, fs, allow>>

NextTmp == CallGetTmpPath \/ CallMakeTmpDir \/ CallGenTmpPath

SpecTmp == InitTmp /\ [][NextTmp]_vars

\* C9's leaf name for the options as given and the drawn integer rn
LeafName(opts, rn) ==
    LET prefix == IF opts.prefix.given THEN opts.prefix.val ELSE <<>>
        suffix == IF opts.suffix.given THEN opts.suffix.val ELSE <<>>
        joinChar == IF opts.joinChar.given THEN opts.joinChar.val ELSE <<".">>
        token == HashidsEncode(NumberToString(rn), HashMinLength, rn)
    IN (IF prefix # <<>> THEN prefix \o joinChar ELSE <<>>)
       \o token
       \o (IF suffix # <<>> THEN joinChar \o suffix ELSE <<>>)

\* C9's base directory: tmpDir if given (and not empty), else the OS temp root
BaseDir(opts) ==
    IF opts.tmpDir.given /\ opts.tmpDir.val # <<>>
    THEN NewPath(opts.tmpDir, None, DetermineSeparators(os).value)
    ELSE GetTmpPath(os, env).value

\* C9: a makeTmpDir or genTmpPath call that returns, returns the base
\* directory with the leaf name pushed onto it, the token being the
\* encoder's output for a drawn rn with 0 <= rn < rngScalar; the call issues
\* no create-directory or remove call and leaves the filesystem as it was.
C9_TmpPath ==
    ret.op \in {"makeTmpDir", "genTmpPath"} =>
        LET opts == ret.args[1]
            rn == ret.args[2]
            rngScalar == IF opts.rngScalar.given THEN opts.rngScalar.val
                         ELSE DefaultRngScalar
        IN /\ 0 <= rn /\ rn < rngScalar
           /\ ret.status = "ok" => ret.value = Push(BaseDir(opts), LeafName(opts, rn))
           /\ ret.oscalls = <<>>
           /\ fs = ret.fsBefore

C9_Witness ==
    /\ ret.op = "genTmpPath"
    /\ ret.status = "ok"
    /\ ret.args[1].prefix = Some(<<"r", "u", "n">>)
    /\ ret.args[1].suffix = Some(<<"t", "m", "p">>)
    /\ ret.args[1].tmpDir = None
    /\ ret.args[2] = 4095
    /\ Len(ret.value.pathElements) >= 2

(***************************************************************************)
(* The host behind Deno.statSync and Deno.mkdirSync, on linux and darwin.  *)
(* A node is the sequence of names from the root; fs maps every entry to   *)
(* its kind: "dir", "file", "locked" (a directory the process may not      *)
(* search), "linkfile" (a symbolic link to a regular file) or "dangling"   *)
(* (a symbolic link to nothing).  statSync follows symbolic links.         *)
(***************************************************************************)
\* the working directory of the process
Cwd == <<>>

\* the names of a path string: "/" delimits, empty names are skipped
RECURSIVE OSNames(_, _, _)
OSNames(str, i, name) ==
    IF i > Len(str) THEN (IF name = <<>> THEN <<>> ELSE <<name>>)
    ELSE IF str[i] = "/"
         THEN (IF name = <<>> THEN <<>> ELSE <<name>>) \o OSNames(str, i + 1, <<>>)
         ELSE OSNames(str, i + 1, Append(name, str[i]))

\* the node a path string names
NodeOf(str) == (IF str[1] = "/" THEN <<>> ELSE Cwd) \o OSNames(str, 1, <<>>)

\* the error met on the way down to node, "none" if every ancestor is a
\* directory the process may search
RECURSIVE WalkFrom(_, _, _)
WalkFrom(f, node, k) ==
    IF k >= Len(node) THEN "none"
    ELSE LET anc == SubSeq(node, 1, k) IN
         IF anc \notin DOMAIN f THEN "NotFound"
         ELSE CASE f[anc] = "dir" -> WalkFrom(f, node, k + 1)
                [] f[anc] = "locked" -> "PermissionDenied"
                [] f[anc] = "dangling" -> "NotFound"
                [] OTHER -> "NotADirectory"

FileInfo(kind) ==
    [isFile |-> kind \in {"file", "linkfile"},
     isDirectory |-> kind \in {"dir", "locked"},
     isSymlink |-> FALSE]

\* Deno.statSync(str) under the permissions a
StatSync(f, a, str) ==
    IF ~a.read THEN [status |-> "throw", value |-> "PermissionDenied"]
    ELSE IF str = <<>> THEN [status |-> "throw", value |-> "NotFound"]
    ELSE LET node == NodeOf(str)
             walk == WalkFrom(f, node, 0)
         IN IF walk # "none" THEN [status |-> "throw", value |-> walk]
            ELSE IF node \notin DOMAIN f \/ f[node] = "dangling"
                 THEN [status |-> "throw", value |-> "NotFound"]
            ELSE IF str[Len(str)] = "/" /\ ~FileInfo(f[node]).isDirectory
                 THEN [status |-> "throw", value |-> "NotADirectory"]
            ELSE [status |-> "ok", value |-> FileInfo(f[node])]

\* Deno.mkdirSync(str) / Deno.mkdir(str), not recursive: the value is the
\* filesystem after the call
MkdirSync(f, a, str) ==
    IF ~a.write THEN [status |-> "throw", value |-> "PermissionDenied", fs |-> f]
    ELSE IF str = <<>> THEN [status |-> "throw", value |-> "NotFound", fs |-> f]
    ELSE LET node == NodeOf(str)
             walk == WalkFrom(f, node, 0)
         IN IF walk # "none" THEN [status |-> "throw", value |-> walk, fs |-> f]
            ELSE IF node \in DOMAIN f
                 THEN [status |-> "throw", value |-> "AlreadyExists", fs |-> f]
            ELSE [status |-> "ok", value |-> "void",
                  fs |-> [n \in DOMAIN f \cup {node} |->
                             IF n = node THEN "dir" ELSE f[n]]]

(***************************************************************************)
(* Path: exists, isFile, isDir, isSymlink.  h is the host: its filesystem  *)
(* fs, its permissions allow and its separators seps.                      *)
(***************************************************************************)
\* a variant of the probes' catch block that reports every failure as false
SwallowAll(r, flag) ==
    IF r.status = "ok" THEN [status |-> "ok", value |-> flag]
    ELSE [status |-> "ok", value |-> FALSE]

\* try { return <flag of the stat result> } catch (e) { PermissionDenied is
\* thrown again, anything else gives false }
Probe(r, flag) ==
    IF r.status = "ok" THEN [status |-> "ok", value |-> flag]
    ELSE IF r.value = "PermissionDenied"
         THEN [status |-> "throw", value |-> "PermissionDenied"]
         ELSE [status |-> "ok", value |-> FALSE]

Exists(p, h) ==
    LET r == StatSync(h.fs, h.allow, Str(p)) IN Probe(r, TRUE)

IsFile(p, h) ==
    LET r == StatSync(h.fs, h.allow, Str(p))
    IN Probe(r, IF r.status = "ok" THEN r.value.isFile ELSE FALSE)

IsDir(p, h) ==
    LET r == StatSync(h.fs, h.allow, Str(p))
    IN Probe(r, IF r.status = "ok" THEN r.value.isDirectory ELSE FALSE)

IsSymlink(p, h) ==
    LET r == StatSync(h.fs, h.allow, Str(p))
    IN Probe(r, IF r.status = "ok" THEN r.value.isSymlink ELSE FALSE)

(***************************************************************************)
(* Path: findLastValidNode, mkDirSync, mkDir.                              *)
(***************************************************************************)
\* a variant of the loop whose ignoreFiles condition is "not a file" alone
RECURSIVE FindLoopFilesOnly(_, _, _)
FindLoopFilesOnly(np, ignoreFiles, h) ==
    LET e == Exists(np, h) IN
    IF e.status = "throw" THEN [status |-> "throw", value |-> e.value, np |-> np]
    ELSE LET again == IF Default(ignoreFiles, FALSE)
                      THEN ~IsFile(np, h).value
                      ELSE ~e.value
         IN IF ~again THEN [status |-> "ok", value |-> np, np |-> np]
            ELSE IF np.pathElements = <<>> THEN [status |-> "hang", value |-> np, np |-> np]
            ELSE FindLoopFilesOnly(Del(np), ignoreFiles, h)

\* the while loop of findLastValidNode on the copy np.  When the condition
\* holds on a copy without elements, del() changes nothing and the loop
\* never ends: "hang".  The field np is the copy as the loop left it.
RECURSIVE FindLoop(_, _, _)
FindLoop(np, ignoreFiles, h) ==
    LET e == Exists(np, h) IN
    IF e.status = "throw" THEN [status |-> "throw", value |-> e.value, np |-> np]
    ELSE LET again == IF Default(ignoreFiles, FALSE)
                      THEN ~e.value /\ ~IsFile(np, h).value
                      ELSE ~e.value
         IN IF ~again THEN [status |-> "ok", value |-> np, np |-> np]
            ELSE IF np.pathElements = <<>> THEN [status |-> "hang", value |-> np, np |-> np]
            ELSE FindLoop(Del(np), ignoreFiles, h)

\* findLastValidNode(ignoreFiles?)
FindLastValidNode(p, ignoreFiles, h) ==
    LET strRepr == Str(p)
        np == NewPath(Some(strRepr), None, h.seps)
    IN FindLoop(np, ignoreFiles, h)

\* the loop of mkDirSync over needs, from index i on: vp.push(needs[i]) and
\* a create-directory call for vp
RECURSIVE CreateNeeded(_, _, _, _, _)
CreateNeeded(vp, needs, i, h, issued) ==
    IF i > Len(needs)
    THEN [status |-> "ok", value |-> TRUE, fs |-> h.fs, oscalls |-> issued]
    ELSE LET vp2 == Push(vp, needs[i])
             m == MkdirSync(h.fs, h.allow, Str(vp2))
             now == Append(issued, Str(vp2))
         IN IF m.status = "throw"
            THEN [status |-> "throw", value |-> m.value, fs |-> h.fs, oscalls |-> now]
            ELSE CreateNeeded(vp2, needs, i + 1, [h EXCEPT !.fs = m.fs], now)

\* mkDirSync from "if (this.exists && this.isDir)" on
MkDirRest(p, h, issued) ==
    LET e == Exists(p, h) IN
    IF e.status = "throw"
    THEN [status |-> "throw", value |-> e.value, fs |-> h.fs, oscalls |-> issued]
    ELSE IF e.value /\ IsDir(p, h).value
    THEN [status |-> "ok", value |-> TRUE, fs |-> h.fs, oscalls |-> issued]
    ELSE LET vp == FindLastValidNode(p, None, h) IN
         IF vp.status # "ok"
         THEN [status |-> vp.status, value |-> vp.value, fs |-> h.fs, oscalls |-> issued]
         ELSE CreateNeeded(vp.value, Diff(p, vp.value), 1, h, issued)

\* mkDirSync(parents = false)
MkDirSync(p, parents, h) ==
    IF ~Default(parents, FALSE)
    THEN LET m == MkdirSync(h.fs, h.allow, Str(p)) IN
         IF m.status = "throw"
         THEN [status |-> "throw", value |-> m.value, fs |-> h.fs,
               oscalls |-> <<Str(p)>>]
         ELSE MkDirRest(p, [h EXCEPT !.fs = m.fs], <<Str(p)>>)
    ELSE MkDirRest(p, h, <<>>)

\* mkDir(parents = false): the same steps, each create-directory call awaited
MkDir(p, parents, h) == MkDirSync(p, parents, h)

(***************************************************************************)
(* SpecFS: one Path on a linux or darwin host, its probes and its          *)
(* directory creation.  A call that never returns ends the run.            *)
(***************************************************************************)
NameA == <<"a">>
NameB == <<"b">>

\* the sequences of at most n names
RECURSIVE NameSeqs(_)
NameSeqs(n) ==
    IF n = 0 THEN {<<>>}
    ELSE NameSeqs(n - 1) \cup {Append(q, c) : q \in NameSeqs(n - 1), c \in {NameA, NameB}}

FSTexts ==
    {lead \o Join(names, <<"/">>) \o trail :
        lead \in {<<>>, <<"/">>}, names \in NameSeqs(MaxDepth), trail \in {<<>>, <<"/">>}}
    \cup {<<"/", "a", "\\", "b">>, <<"a", "\\", "b", "/", "a">>, <<"/", "a", "/", "b", "\\", "a">>}

FSHosts == {[os |-> "linux", seps |-> None],
            [os |-> "darwin", seps |-> Some(WINDOWS_SEPS)]}

\* the filesystem f with one more entry
With(f, node, kind) == [n \in DOMAIN f \cup {node} |-> IF n = node THEN kind ELSE f[n]]

DirA == With(RootOnly, <<NameA>>, "dir")
DirAB == With(DirA, <<NameA, NameB>>, "dir")

NoRead == [read |-> FALSE, write |-> TRUE]
NoWrite == [read |-> TRUE, write |-> FALSE]

\* the filesystems and permissions a run starts from
Worlds ==
    {[fs |-> f, allow |-> AllowAll] :
        f \in {RootOnly, DirA, DirAB,
               With(DirAB, <<NameA, NameB, NameA>>, "dir"),
               With(DirA, <<NameA, NameB>>, "file"),
               With(DirA, <<NameB>>, "dir"),
               With(RootOnly, <<NameA>>, "file"),
               With(RootOnly, <<NameA>>, "locked"),
               With(With(RootOnly, <<NameA>>, "locked"), <<NameA, NameB>>, "dir"),
               With(RootOnly, <<NameA>>, "linkfile"),
               With(RootOnly, <<NameA>>, "dangling")}}
    \cup {[fs |-> f, allow |-> a] : f \in {RootOnly, DirA}, a \in {NoRead, NoWrite}}

InitFS ==
    \E h \in FSHosts, t \in FSTexts, w \in Worlds :
        LET p == NewPath(Some(t), h.seps, DetermineSeparators(h.os).value) IN
        /\ pathElements = p.pathElements
        /\ separators = p.separators
        /\ trailingSlash = p.trailingSlash
        /\ input = [path |-> Some(t), separators |-> h.seps]
        /\ calls = <<>>
        /\ os = h.os
        /\ env = NoEnv
        /\ fs = w.fs
        /\ allow = w.allow
        /\ ret = Outcome("new", input, "ok", p, <<>>)

Host == [fs |-> fs, allow |-> allow, seps |-> DetermineSeparators(os).value]

Running == ret.status # "hang"

Probed(op, r) ==
    /\ Running
    /\ ret' = Outcome(op, <<>>, r.status, r.value, <<>>)
    /\ UNCHANGED <<pathElements, separators, trailingSlash, input, calls, os, env, fs, allow>>

CallExists == Probed("exists", Exists(This, Host))
CallIsFile == Probed("isFile", IsFile(This, Host))
CallIsDir == Probed("isDir", IsDir(This, Host))
CallIsSymlink == Probed("isSymlink", IsSymlink(This, Host))

ParentsArgs == {None, Some(TRUE)}

MadeDir(op, parents, r) ==
    /\ Running
    /\ fs' = r.fs
    /\ ret' = Outcome(op, <<parents>>, r.status, r.value, r.oscalls)
    /\ UNCHANGED <<pathElements, separators, trailingSlash, input, calls, os, env, allow>>

CallMkDirSync ==
    \E parents \in ParentsArgs : MadeDir("mkDirSync", parents, MkDirSync(This, parents, Host))

CallMkDir ==
    \E parents \in {Some(FALSE), Some(TRUE)} :
        MadeDir("mkDir", parents, MkDir(This, parents, Host))

CallFindLastValidNode ==
    \E ignoreFiles \in {None, Some(TRUE)} :
        LET r == FindLastValidNode(This, ignoreFiles, Host) IN
        /\ Running
        /\ ret' = Outcome("findLastValidNode", <<ignoreFiles>>, r.status, r.value, <<>>)
        /\ UNCHANGED <<pathElements, separators, trailingSlash, input, calls,
                       os, env, fs, allow>>

NextFS ==
    \/ CallExists \/ CallIsFile \/ CallIsDir \/ CallIsSymlink
    \/ CallMkDirSync \/ CallMkDir \/ CallFindLastValidNode

SpecFS == InitFS /\ [][NextFS]_vars

(***************************************************************************)
(* Claims about the probes and directory creation, checked under SpecFS.   *)
(***************************************************************************)
ProbeOps == {"exists", "isFile", "isDir", "isSymlink"}
MkOps == {"mkDirSync", "mkDir"}

\* the instance as constructed on this host
ConstructedFS == NewPath(input.path, input.separators, DetermineSeparators(os).value)

\* C7: a probe whose status query fails with permission-denied raises that
\* error; one whose query fails otherwise returns false; one whose query
\* succeeds returns true (exists) or the kind flag of the stat result; and no
\* probe modifies the Path or the filesystem.
C7_Probes ==
    ret.op \in ProbeOps =>
        LET q == StatSync(ret.fsBefore, allow, Str(This)) IN
        /\ (q.status = "throw" /\ q.value = "PermissionDenied")
             => (ret.status = "throw" /\ ret.value = "PermissionDenied")
        /\ (q.status = "throw" /\ q.value # "PermissionDenied")
             => (ret.status = "ok" /\ ret.value = FALSE)
        /\ q.status = "ok"
             => /\ ret.status = "ok"
                /\ ret.value = CASE ret.op = "exists" -> TRUE
                                 [] ret.op = "isFile" -> q.value.isFile
                                 [] ret.op = "isDir" -> q.value.isDirectory
                                 [] ret.op = "isSymlink" -> q.value.isSymlink
        /\ fs = ret.fsBefore
        /\ This = ConstructedFS

C7_Witness ==
    /\ ret.op = "isDir"
    /\ ret.status = "throw"
    /\ ret.value = "PermissionDenied"
    /\ allow.read
    /\ fs = ret.fsBefore

\* C8: makeDirectory with parents = false issues exactly one create-directory
\* call, for the full serialized path; if the call fails its error reaches
\* the caller and the filesystem is unchanged; if it succeeds the routine
\* returns true and only the leaf directory has been created.
C8_NoParents ==
    (ret.op \in MkOps /\ ~Default(ret.args[1], FALSE)) =>
        LET m == MkdirSync(ret.fsBefore, allow, Str(This)) IN
        /\ ret.oscalls = <<Str(This)>>
        /\ m.status = "throw"
             => (ret.status = "throw" /\ ret.value = m.value /\ fs = ret.fsBefore)
        /\ m.status = "ok"
             => (ret.status = "ok" /\ ret.value = TRUE /\ fs = m.fs)

\* the nodes from the first fragment of the path named by str down to it
PrefixNodes(str) ==
    {SubSeq(NodeOf(str), 1, k) : k \in (Len(Cwd) + 1)..Len(NodeOf(str))}

\* a filesystem of directories only, open to the process
OnlyDirs(f) == \A n \in DOMAIN f : f[n] = "dir"

\* C6: on a nested path that does not exist yet, two makeDirectory calls with
\* parents = true in a row both return true, the second issues no
\* create-directory call, and afterwards the path and every intermediate
\* directory is a directory.  Stated for the case most favourable to the
\* claim: an absolute path of two or more non-empty fragments, the host's own
\* separators, and a filesystem of accessible directories only; ret is the
\* first call and ret' the second.
C6_Step ==
    (/\ ret.op \in MkOps /\ Default(ret.args[1], FALSE)
     /\ ret'.op \in MkOps /\ Default(ret'.args[1], FALSE)
     /\ Len(pathElements) >= 2
     /\ \A i \in 1..Len(pathElements) : pathElements[i] # <<>>
     /\ trailingSlash
     /\ separators = DetermineSeparators(os).value
     /\ NodeOf(Str(This)) \notin DOMAIN ret.fsBefore
     /\ OnlyDirs(ret.fsBefore)
     /\ allow = AllowAll)
        => /\ ret.status = "ok" /\ ret.value = TRUE
           /\ ret'.status = "ok" /\ ret'.value = TRUE
           /\ ret'.oscalls = <<>>
           /\ \A n \in PrefixNodes(Str(This)) : n \in DOMAIN fs' /\ fs'[n] = "dir"

C6_Idempotent == [][C6_Step]_vars

\* the prefixes of node that f does not hold, root to leaf
MissingPrefixes(f, node) ==
    LET Missing(n) == n \notin DOMAIN f
    IN SelectSeq([k \in 1..Len(node) |-> SubSeq(node, 1, k)], Missing)

\* the path str names a directory in f
IsDirectoryIn(f, a, str) ==
    LET q == StatSync(f, a, str) IN q.status = "ok" /\ q.value.isDirectory

\* C11: makeDirectory with parents = true on a path that is not yet a
\* directory, when it returns, has returned true after one create-directory
\* call per missing prefix of the path, in root-to-leaf order (so each call's
\* parent exists when it is issued), and the full serialized path is then a
\* directory.  Stated for a Path that keeps the host's own separators.
C11_Incremental ==
    (/\ ret.op \in MkOps /\ Default(ret.args[1], FALSE)
     /\ ret.status = "ok"
     /\ separators = DetermineSeparators(os).value
     /\ Str(This) # <<>>
     /\ ~IsDirectoryIn(ret.fsBefore, allow, Str(This)))
        => LET node == NodeOf(Str(This)) IN
           /\ ret.value = TRUE
           /\ [i \in 1..Len(ret.oscalls) |-> NodeOf(ret.oscalls[i])]
                = MissingPrefixes(ret.fsBefore, node)
           /\ node \in DOMAIN fs /\ fs[node] = "dir"

\* the receiver cut down to its first k elements
PrefixPath(k) == [This EXCEPT !.pathElements = SubSeq(pathElements, 1, k)]

\* the lengths of the prefixes of the receiver's elements that exist in f
ExistingPrefixes(f) ==
    {k \in 0..Len(pathElements) :
        LET e == Exists(PrefixPath(k), [Host EXCEPT !.fs = f])
        IN e.status = "ok" /\ e.value}

\* C12: findLastValidNode, when it returns, returns a Path whose elements are
\* the longest prefix of the receiver's elements that exists on the
\* filesystem, with the receiver's leading-root flag, and leaves the receiver
\* and the filesystem as they were.
C12_LongestPrefix ==
    (ret.op = "findLastValidNode" /\ ret.status = "ok") =>
        LET ks == ExistingPrefixes(ret.fsBefore) IN
        /\ ks # {}
        /\ \E k \in ks :
              /\ \A j \in ks : j <= k
              /\ ret.value.pathElements = SubSeq(pathElements, 1, k)
        /\ ret.value.trailingSlash = trailingSlash
        /\ This = ConstructedFS
        /\ fs = ret.fsBefore

\* the number of del() calls a findLastValidNode outcome r made on its copy
Dels(r) == Len(NewPath(Some(Str(This)), None, Host.seps).pathElements)
             - Len(r.np.pathElements)

C14_Terminates ==
    (ret.op = "findLastValidNode" \/ (ret.op \in MkOps /\ Default(ret.args[1], FALSE)))
        => /\ ret.status # "hang"
           /\ (ret.op = "findLastValidNode" /\ ret.status = "ok")
                => LET n == Len(NewPath(Some(Str(This)), None, Host.seps).pathElements)
                   IN n - Len(ret.value.pathElements) \in 0..n

====
